---- MODULE Spec2Model ----
(***************************************************************************)
(* Locale routing of packages/open-next/src/core/routing/i18n/index.ts:    *)
(* isLocalizedPath, getLocaleFromCookie, detectDomainLocale, detectLocale, *)
(* localizePath and handleLocaleRedirect, over the process-wide            *)
(* NextConfig.i18n and one InternalEvent per request.                      *)
(*                                                                         *)
(* A JavaScript string is a sequence of one-character strings, so that     *)
(* toLowerCase, split and template concatenation are computed character by *)
(* character.  undefined is the one-element sequence Undef, which no       *)
(* string of characters equals.                                            *)
(***************************************************************************)
EXTENDS Naturals, Sequences, FiniteSets, TLC

VARIABLES NextConfig, internalEvent, query, pc, result, hops

vars == <<NextConfig, internalEvent, query, pc, result, hops>>

----------------------------------------------------------------------------
(* Strings *)

Undef == <<"undefined">>

UpperToLower ==
  [c \in {"A","B","C","D","E","F","G","H","I","J","K","L","M",
          "N","O","P","Q","R","S","T","U","V","W","X","Y","Z"} |->
     CASE c = "A" -> "a" [] c = "B" -> "b" [] c = "C" -> "c" [] c = "D" -> "d"
       [] c = "E" -> "e" [] c = "F" -> "f" [] c = "G" -> "g" [] c = "H" -> "h"
       [] c = "I" -> "i" [] c = "J" -> "j" [] c = "K" -> "k" [] c = "L" -> "l"
       [] c = "M" -> "m" [] c = "N" -> "n" [] c = "O" -> "o" [] c = "P" -> "p"
       [] c = "Q" -> "q" [] c = "R" -> "r" [] c = "S" -> "s" [] c = "T" -> "t"
       [] c = "U" -> "u" [] c = "V" -> "v" [] c = "W" -> "w" [] c = "X" -> "x"
       [] c = "Y" -> "y" [] c = "Z" -> "z"]

\* String.prototype.toLowerCase
toLowerCase(s) ==
  [i \in 1..Len(s) |-> IF s[i] \in DOMAIN UpperToLower THEN UpperToLower[s[i]] ELSE s[i]]

\* index of the first occurrence of the character sep in s, 0 when there is none
IndexOf(s, sep) ==
  IF \E i \in 1..Len(s) : s[i] = sep
    THEN CHOOSE i \in 1..Len(s) : s[i] = sep /\ \A j \in 1..(i-1) : s[j] # sep
    ELSE 0

RECURSIVE split(_, _)
\* String.prototype.split(sep): the substrings between the occurrences of sep
split(s, sep) ==
  LET i == IndexOf(s, sep) IN
  IF i = 0 THEN <<s>>
  ELSE <<SubSeq(s, 1, i-1)>> \o split(SubSeq(s, i+1, Len(s)), sep)

\* a?.toLowerCase()
OptLower(s) == IF s = Undef THEN Undef ELSE toLowerCase(s)

\* a ?? b
Coalesce(a, b) == IF a # Undef THEN a ELSE b

----------------------------------------------------------------------------
(* The functions of i18n/index.ts.  NextConfig is the process-wide          *)
(* configuration; NextConfig.i18n.defined is FALSE when i18n is not         *)
(* configured and domainsDefined is FALSE when i18n.domains is absent.      *)

\* isLocalizedPath: locales.includes(path.split("/")[1].toLowerCase()) ?? false
isLocalizedPath(path) ==
  IF ~NextConfig.i18n.defined THEN FALSE
  ELSE LET segment == toLowerCase(split(path, "/")[2])
       IN  \E k \in 1..Len(NextConfig.i18n.locales) : NextConfig.i18n.locales[k] = segment

\* Array.prototype.find over the configured locales: the first one whose
\* lowercased form is nextLocale
FindLocale(locales, nextLocale) ==
  LET hits == {k \in 1..Len(locales) : nextLocale = toLowerCase(locales[k])}
  IN  IF hits = {} THEN Undef
      ELSE locales[CHOOSE k \in hits : \A j \in hits : k <= j]

\* the cookie's value, lowercased, without the look-up in the configured locales
getLocaleFromCookie_Unvalidated(cookies) ==
  LET nextLocale == OptLower(cookies.NEXT_LOCALE)
  IN  IF nextLocale # Undef /\ nextLocale # <<>> THEN nextLocale ELSE Undef

getLocaleFromCookie(cookies) ==
  LET i18n == NextConfig.i18n
      nextLocale == OptLower(cookies.NEXT_LOCALE)
  IN  IF nextLocale # Undef /\ nextLocale # <<>>
        THEN (IF i18n.defined THEN FindLocale(i18n.locales, nextLocale) ELSE Undef)
        ELSE Undef

\* the condition of the loop body of detectDomainLocale for one entry
DomainMatches(domain, hostname, lowercasedLocale) ==
  LET domainHostname == toLowerCase(split(domain.domain, ":")[1])
  IN  \/ hostname = domainHostname
      \/ (lowercasedLocale # Undef /\ lowercasedLocale = toLowerCase(domain.defaultLocale))
      \/ \E k \in 1..Len(domain.locales) :
            lowercasedLocale # Undef /\ lowercasedLocale = toLowerCase(domain.locales[k])

RECURSIVE ScanDomains(_, _, _, _)
\* for (const domain of domains): the index of the first entry from k on that matches, 0 for none
ScanDomains(domains, k, hostname, lowercasedLocale) ==
  IF k > Len(domains) THEN 0
  ELSE IF DomainMatches(domains[k], hostname, lowercasedLocale) THEN k
  ELSE ScanDomains(domains, k + 1, hostname, lowercasedLocale)

\* detectDomainLocale({hostname, detectedLocale}): the returned DomainLocale is
\* named by its position in i18n.domains, 0 is undefined
detectDomainLocale(hostname, detectedLocale) ==
  LET i18n == NextConfig.i18n IN
  IF ~i18n.defined \/ ~i18n.domainsDefined THEN 0
  ELSE ScanDomains(i18n.domains, 1, hostname, OptLower(detectedLocale))

\* domainLocale?.defaultLocale
DomainDefaultLocale(d) == IF d = 0 THEN Undef ELSE NextConfig.i18n.domains[d].defaultLocale

RECURSIVE acceptLanguage(_, _)
\* the Language Matcher: the Accept-Language value is the list of its language
\* tags in order of preference; the result is the configured locale matching
\* the most preferred tag that matches any, compared without case
acceptLanguage(header, locales) ==
  IF header = <<>> THEN Undef
  ELSE LET hit == FindLocale(locales, toLowerCase(Head(header)))
       IN  IF hit # Undef THEN hit ELSE acceptLanguage(Tail(header), locales)

\* the Accept-Language match before the cookie
detectLocale_HeaderFirst(event, i18n) ==
  LET domainLocale == detectDomainLocale(event.headers.host, Undef) IN
  IF i18n.localeDetection = "false"
    THEN Coalesce(DomainDefaultLocale(domainLocale), i18n.defaultLocale)
    ELSE LET cookiesLocale == getLocaleFromCookie(event.cookies)
             preferredLocale == acceptLanguage(event.headers.acceptLanguage, i18n.locales)
         IN  Coalesce(DomainDefaultLocale(domainLocale),
               Coalesce(preferredLocale, Coalesce(cookiesLocale, i18n.defaultLocale)))

\* without the localeDetection === false return
detectLocale_IgnoresFlag(event, i18n) ==
  LET domainLocale == detectDomainLocale(event.headers.host, Undef)
      cookiesLocale == getLocaleFromCookie(event.cookies)
      preferredLocale == acceptLanguage(event.headers.acceptLanguage, i18n.locales)
  IN  Coalesce(DomainDefaultLocale(domainLocale),
        Coalesce(cookiesLocale, Coalesce(preferredLocale, i18n.defaultLocale)))

detectLocale(event, i18n) ==
  LET domainLocale == detectDomainLocale(event.headers.host, Undef) IN
  IF i18n.localeDetection = "false"
    THEN Coalesce(DomainDefaultLocale(domainLocale), i18n.defaultLocale)
    ELSE LET cookiesLocale == getLocaleFromCookie(event.cookies)
             preferredLocale == acceptLanguage(event.headers.acceptLanguage, i18n.locales)
         IN  Coalesce(DomainDefaultLocale(domainLocale),
               Coalesce(cookiesLocale, Coalesce(preferredLocale, i18n.defaultLocale)))

localizePath(event) ==
  LET i18n == NextConfig.i18n IN
  IF ~i18n.defined THEN event.rawPath
  ELSE IF isLocalizedPath(event.rawPath) THEN event.rawPath
  ELSE <<"/">> \o detectLocale(event, i18n) \o event.rawPath

\* the scheme, "://" and authority of an absolute URL
OriginOf(url) ==
  LET i == IndexOf(url, ":")
      rest == SubSeq(url, i + 3, Len(url))
      j == IndexOf(rest, "/")
  IN  IF j = 0 THEN url ELSE SubSeq(url, 1, i + 2 + j - 1)

\* constructNextUrl(baseUrl, path): path resolved against baseUrl
constructNextUrl(baseUrl, path) == OriginOf(baseUrl) \o path

False == [type |-> "false"]

RedirectTo(location) ==
  [type |-> "core", statusCode |-> 307, headers |-> [Location |-> location],
   isBase64Encoded |-> FALSE]

\* without the rawPath check
PassesEntryGuard_AnyPath(event) ==
  NextConfig.i18n.defined /\ NextConfig.i18n.localeDetection # "false"

\* the entry guard, negated: !(!i18n || localeDetection === false || rawPath !== "/")
PassesEntryGuard(event) ==
  LET i18n == NextConfig.i18n IN
  ~(~i18n.defined \/ i18n.localeDetection = "false" \/ event.rawPath # <<"/">>)

\* && in place of ||
NeedsDomainRedirect_BothDiffer(domainLocale, preferredDomain, preferredLocale) ==
  LET domains == NextConfig.i18n.domains IN
  /\ domainLocale # 0 /\ preferredDomain # 0
  /\ domains[preferredDomain].domain # domains[domainLocale].domain
  /\ domains[preferredDomain].defaultLocale # preferredLocale

\* if (domainLocale && preferredDomain) { ... if (!isPDomain || !isPLocale)
NeedsDomainRedirect(domainLocale, preferredDomain, preferredLocale) ==
  LET domains == NextConfig.i18n.domains IN
  /\ domainLocale # 0 /\ preferredDomain # 0
  /\ LET isPDomain == domains[preferredDomain].domain = domains[domainLocale].domain
         isPLocale == domains[preferredDomain].defaultLocale = preferredLocale
     IN  ~isPDomain \/ ~isPLocale

\* without the locale segment
DomainRedirectUrl_NoSegment(preferredDomain, preferredLocale) ==
  LET domain == NextConfig.i18n.domains[preferredDomain]
  IN  <<"h","t","t","p">> \o (IF domain.http THEN <<>> ELSE <<"s">>)
        \o <<":","/","/">> \o domain.domain \o <<"/">>

\* `${scheme}://${preferredDomain.domain}/${rlocale}`
DomainRedirectUrl(preferredDomain, preferredLocale) ==
  LET domain == NextConfig.i18n.domains[preferredDomain]
      isPLocale == domain.defaultLocale = preferredLocale
      scheme == <<"h","t","t","p">> \o (IF domain.http THEN <<>> ELSE <<"s">>)
      rlocale == IF isPLocale THEN <<>> ELSE preferredLocale
  IN  scheme \o <<":","/","/">> \o domain.domain \o <<"/">> \o rlocale

\* without the host domain's default
RedirectDefaultLocale_GlobalDefault(domainLocale) == NextConfig.i18n.defaultLocale

\* domainLocale?.defaultLocale ?? i18n.defaultLocale
RedirectDefaultLocale(domainLocale) ==
  Coalesce(DomainDefaultLocale(domainLocale), NextConfig.i18n.defaultLocale)

handleLocaleRedirect(event) ==
  LET i18n == NextConfig.i18n IN
  IF ~PassesEntryGuard(event) THEN False
  ELSE
    LET preferredLocale == acceptLanguage(event.headers.acceptLanguage, i18n.locales)
        detectedLocale == detectLocale(event, i18n)
        domainLocale == detectDomainLocale(event.headers.host, Undef)
        preferredDomain == detectDomainLocale(Undef, preferredLocale)
        defaultLocale == RedirectDefaultLocale(domainLocale)
    IN  IF NeedsDomainRedirect(domainLocale, preferredDomain, preferredLocale)
          THEN RedirectTo(DomainRedirectUrl(preferredDomain, preferredLocale))
        ELSE IF toLowerCase(detectedLocale) # toLowerCase(defaultLocale)
          THEN RedirectTo(constructNextUrl(event.url, <<"/">> \o detectedLocale))
        ELSE False

----------------------------------------------------------------------------
(* Inputs *)

en == <<"e","n">>
fr == <<"f","r">>
Fr == <<"F","r">>
FR == <<"F","R">>
de == <<"d","e">>

MaxDomains == 2
MaxHops == 3

\* i18n.domains entries: a domain without and one with a port and an upper-case
\* letter; a default locale alone or with a locales list (a list repeating the
\* default locale matches nothing more, and is left out); and the first host
\* again on another port.  An absent locales or http is <<>> or FALSE.
DomainEntries ==
  { [domain |-> d, defaultLocale |-> v[1], locales |-> v[2], http |-> h] :
      d \in {<<"a">>, <<"B",":","8">>},
      v \in {<<en, <<>>>>, <<Fr, <<>>>>, <<en, <<fr>>>>},
      h \in BOOLEAN }
  \cup
  { [domain |-> <<"a",":","8">>, defaultLocale |-> en, locales |-> <<>>, http |-> FALSE] }

DomainLists == UNION {[1..n -> DomainEntries] : n \in 0..MaxDomains}

\* i18n.locales; i18n.defaultLocale is the first of them
LocaleLists == {<<en, fr>>, <<en, Fr>>, <<en>>}

I18nConfigs ==
  { [defined |-> TRUE, locales |-> ls, defaultLocale |-> ls[1], localeDetection |-> ld,
     domainsDefined |-> TRUE, domains |-> ds] :
      ls \in LocaleLists, ld \in {"true", "false", "absent"}, ds \in DomainLists }
  \cup
  { [defined |-> TRUE, locales |-> ls, defaultLocale |-> ls[1], localeDetection |-> ld,
     domainsDefined |-> FALSE, domains |-> <<>>] :
      ls \in LocaleLists, ld \in {"true", "false", "absent"} }

NoI18n ==
  [defined |-> FALSE, locales |-> <<>>, defaultLocale |-> Undef, localeDetection |-> "absent",
   domainsDefined |-> FALSE, domains |-> <<>>]

\* the request: rawPath is the path of a URL and starts with "/"; the
\* Accept-Language value is the list of its tags, <<>> when the header is absent
Hosts == {<<"a">>, <<"b">>}
Cookies == {Undef, FR, de}
AcceptHeaders == {<<>>, <<en>>, <<de, fr>>}
RawPaths == {<<"/">>, <<"/","x">>, <<"/","F","R">>}

HttpsUrl(host, path) == <<"h","t","t","p","s",":","/","/">> \o host \o path

Events ==
  { [rawPath |-> p, url |-> HttpsUrl(h, p),
     headers |-> [host |-> h, acceptLanguage |-> al],
     cookies |-> [NEXT_LOCALE |-> c]] :
      p \in RawPaths, h \in Hosts, c \in Cookies, al \in AcceptHeaders }

NoEvent ==
  [rawPath |-> Undef, url |-> Undef, headers |-> [host |-> Undef, acceptLanguage |-> <<>>],
   cookies |-> [NEXT_LOCALE |-> Undef]]

NoQuery == [hostname |-> Undef, detectedLocale |-> Undef]

QueryHostnames == {Undef, <<"a">>, <<"b">>, <<"B">>}
QueryLocales == {Undef, en, fr, FR}

----------------------------------------------------------------------------
(* The state machine: the configuration is loaded once; a request is        *)
(* received and one of the exported functions is applied to it; a client    *)
(* that got a redirect requests its Location.                               *)

Init ==
  /\ NextConfig \in {[i18n |-> c] : c \in I18nConfigs \cup {NoI18n}}
  /\ internalEvent = NoEvent
  /\ query = NoQuery
  /\ pc = "idle"
  /\ result = Undef
  /\ hops = 0

Receive ==
  /\ pc = "idle"
  /\ \E e \in Events : internalEvent' = e
  /\ pc' = "received"
  /\ UNCHANGED <<NextConfig, query, result, hops>>

DetectDomainLocale ==
  /\ pc = "idle"
  /\ \E h \in QueryHostnames, l \in QueryLocales :
       /\ query' = [hostname |-> h, detectedLocale |-> l]
       /\ result' = detectDomainLocale(h, l)
  /\ pc' = "detectDomainLocale"
  /\ UNCHANGED <<NextConfig, internalEvent, hops>>

DetectLocale ==
  /\ pc = "received"
  /\ NextConfig.i18n.defined
  /\ result' = detectLocale(internalEvent, NextConfig.i18n)
  /\ pc' = "detectLocale"
  /\ UNCHANGED <<NextConfig, internalEvent, query, hops>>

LocalizePath ==
  /\ pc = "received"
  /\ result' = localizePath(internalEvent)
  /\ pc' = "localizePath"
  /\ UNCHANGED <<NextConfig, internalEvent, query, hops>>

HandleLocaleRedirect ==
  /\ pc = "received"
  /\ result' = handleLocaleRedirect(internalEvent)
  /\ pc' = "handleLocaleRedirect"
  /\ UNCHANGED <<NextConfig, internalEvent, query, hops>>

\* the authority of an absolute URL
HostOf(url) ==
  LET o == OriginOf(url) IN SubSeq(o, IndexOf(o, ":") + 3, Len(o))

\* the path of an absolute URL
PathOf(url) ==
  LET o == OriginOf(url) IN
  IF Len(o) = Len(url) THEN <<"/">> ELSE SubSeq(url, Len(o) + 1, Len(url))

\* the client requests the Location of the redirect, with the same cookies
\* and Accept-Language
FollowRedirect ==
  /\ pc = "handleLocaleRedirect"
  /\ result # False
  /\ hops < MaxHops
  /\ internalEvent' =
       [internalEvent EXCEPT !.url = result.headers.Location,
                             !.rawPath = PathOf(result.headers.Location),
                             !.headers.host = HostOf(result.headers.Location)]
  /\ pc' = "received"
  /\ result' = Undef
  /\ hops' = hops + 1
  /\ UNCHANGED <<NextConfig, query>>

Next ==
  \/ Receive
  \/ DetectDomainLocale
  \/ DetectLocale
  \/ LocalizePath
  \/ HandleLocaleRedirect
  \/ FollowRedirect

Spec == Init /\ [][Next]_vars

TypeOK == pc \in {"idle", "received", "detectDomainLocale", "detectLocale",
                  "localizePath", "handleLocaleRedirect"}

----------------------------------------------------------------------------
(* Vocabulary of the properties, stated over the configuration and the     *)
(* request rather than through the functions above.                        *)

I18n == NextConfig.i18n

Elements(seq) == {seq[k] : k \in 1..Len(seq)}

First(S) == CHOOSE k \in S : \A j \in S : k <= j

\* a domain "host[:port]" with its port stripped, lowercased
HostnameOf(domain) ==
  toLowerCase(IF \E i \in 1..Len(domain) : domain[i] = ":"
                THEN SubSeq(domain, 1, IndexOf(domain, ":") - 1)
                ELSE domain)

SameIgnoringCase(a, b) == a # Undef /\ b # Undef /\ toLowerCase(a) = toLowerCase(b)

\* the entries of i18n.domains whose hostname is host
HostEntries(host) ==
  {k \in 1..Len(I18n.domains) : host = HostnameOf(I18n.domains[k].domain)}

\* the entries of i18n.domains that own the locale, as default or in locales
LocaleEntries(locale) ==
  {k \in 1..Len(I18n.domains) :
     \/ SameIgnoringCase(locale, I18n.domains[k].defaultLocale)
     \/ \E l \in Elements(I18n.domains[k].locales) : SameIgnoringCase(locale, l)}

\* the configured locales the NEXT_LOCALE cookie names
CookieLocales(event) ==
  {k \in 1..Len(I18n.locales) : SameIgnoringCase(event.cookies.NEXT_LOCALE, I18n.locales[k])}

PreferredLocale(event) == acceptLanguage(event.headers.acceptLanguage, I18n.locales)

DetectionEnabled == I18n.defined /\ I18n.localeDetection # "false"

\* past the entry guard of handleLocaleRedirect
PastGuard == DetectionEnabled /\ internalEvent.rawPath = <<"/">>

\* the first-defined value of domain, cookie, header and default
PrecedenceLocale(event) ==
  IF HostEntries(event.headers.host) # {}
    THEN I18n.domains[First(HostEntries(event.headers.host))].defaultLocale
  ELSE IF CookieLocales(event) # {} THEN I18n.locales[First(CookieLocales(event))]
  ELSE IF PreferredLocale(event) # Undef THEN PreferredLocale(event)
  ELSE I18n.defaultLocale

\* the condition and the target of the domain redirect
DomainRedirectDue(event) ==
  /\ HostEntries(event.headers.host) # {}
  /\ LocaleEntries(PreferredLocale(event)) # {}
  /\ LET host == I18n.domains[First(HostEntries(event.headers.host))]
         preferred == I18n.domains[First(LocaleEntries(PreferredLocale(event)))]
     IN  preferred.domain # host.domain \/ preferred.defaultLocale # PreferredLocale(event)

DomainRedirectLocation(event) ==
  LET preferred == I18n.domains[First(LocaleEntries(PreferredLocale(event)))]
  IN  (IF preferred.http THEN <<"h","t","t","p">> ELSE <<"h","t","t","p","s">>)
        \o <<":","/","/">> \o preferred.domain \o <<"/">>
        \o (IF preferred.defaultLocale = PreferredLocale(event) THEN <<>>
            ELSE PreferredLocale(event))

\* the domain entries have pairwise distinct hostnames
DistinctHostnames ==
  \A j, k \in 1..Len(I18n.domains) :
     HostnameOf(I18n.domains[j].domain) = HostnameOf(I18n.domains[k].domain) => j = k

----------------------------------------------------------------------------
(* Properties *)

\* C1 (as claimed): detectLocale returns a member of i18n.locales or
\* i18n.defaultLocale, for every request and configuration.
C1_InLocales ==
  pc = "detectLocale" => result \in Elements(I18n.locales) \cup {I18n.defaultLocale}

\* C1 (amended): detectLocale returns a member of i18n.locales, or
\* i18n.defaultLocale, or the defaultLocale of the domain entry whose hostname
\* is the request host.
C1_InLocalesOrDomainDefault ==
  pc = "detectLocale" =>
    result \in Elements(I18n.locales) \cup {I18n.defaultLocale}
                 \cup {I18n.domains[k].defaultLocale : k \in HostEntries(internalEvent.headers.host)}

C1_Witness ==
  /\ pc = "detectLocale"
  /\ result \notin Elements(I18n.locales) \cup {I18n.defaultLocale}
  /\ I18n.localeDetection = "absent"

\* C2: localizePath is idempotent: applied to the request with rawPath replaced
\* by its own output, it returns that output again.
C2_Idempotent ==
  pc = "localizePath" =>
    localizePath([internalEvent EXCEPT !.rawPath = result]) = result

\* C3: a path whose first segment is a configured locale, compared without
\* case, is localized: isLocalizedPath is true, localizePath returns the
\* rawPath unchanged and handleLocaleRedirect returns false.
FirstSegmentIsLocale(path) ==
  /\ I18n.defined
  /\ Len(path) > 1
  /\ path[1] = "/"
  /\ LET rest == SubSeq(path, 2, Len(path))
         segment == IF \E i \in 1..Len(rest) : rest[i] = "/"
                      THEN SubSeq(rest, 1, IndexOf(rest, "/") - 1) ELSE rest
     IN  \E l \in Elements(I18n.locales) : SameIgnoringCase(segment, l)

C3_LocalizedAnyCase ==
  (pc \in {"localizePath", "handleLocaleRedirect"} /\ FirstSegmentIsLocale(internalEvent.rawPath)) =>
    /\ isLocalizedPath(internalEvent.rawPath)
    /\ pc = "localizePath" => result = internalEvent.rawPath
    /\ pc = "handleLocaleRedirect" => result = False

\* C4: with locale detection not false, detectLocale returns the first defined
\* of: the defaultLocale of the first domain entry whose hostname is the
\* request host, the configured locale the NEXT_LOCALE cookie names, the
\* Accept-Language best match, i18n.defaultLocale.
C4_Precedence ==
  (pc = "detectLocale" /\ DetectionEnabled) => result = PrecedenceLocale(internalEvent)

\* the cookie decides against a different Accept-Language match
C4_Witness ==
  /\ pc = "detectLocale"
  /\ DetectionEnabled
  /\ HostEntries(internalEvent.headers.host) = {}
  /\ CookieLocales(internalEvent) # {}
  /\ PreferredLocale(internalEvent) # Undef
  /\ PreferredLocale(internalEvent) # result
  /\ result # I18n.defaultLocale

\* C5: with localeDetection false, detectLocale gives every request with the
\* same host, whatever its cookies and Accept-Language, the same result: the
\* defaultLocale of the first domain entry whose hostname is the host, and
\* i18n.defaultLocale when there is none.
C5_FixedLocale ==
  (pc = "detectLocale" /\ I18n.localeDetection = "false") =>
    /\ \A c \in Cookies, al \in AcceptHeaders :
         detectLocale([internalEvent EXCEPT !.cookies.NEXT_LOCALE = c,
                                            !.headers.acceptLanguage = al], I18n) = result
    /\ result = IF HostEntries(internalEvent.headers.host) # {}
                  THEN I18n.domains[First(HostEntries(internalEvent.headers.host))].defaultLocale
                  ELSE I18n.defaultLocale

\* cookie and header both name a locale other than the result
C5_Witness ==
  /\ pc = "detectLocale"
  /\ I18n.localeDetection = "false"
  /\ CookieLocales(internalEvent) # {}
  /\ I18n.locales[First(CookieLocales(internalEvent))] # result
  /\ PreferredLocale(internalEvent) \notin {Undef, result}

\* C6: detectDomainLocale returns the first entry for which the hostname
\* lowercased equals the entry's hostname, or detectedLocale equals, without
\* case, the entry's defaultLocale or one of its locales; undefined (0) when
\* no domains are configured or no entry matches.
C6_FirstMatch ==
  pc = "detectDomainLocale" =>
    LET matching == HostEntries(OptLower(query.hostname)) \cup LocaleEntries(query.detectedLocale)
    IN  result = IF matching = {} THEN 0 ELSE First(matching)

\* C7: handleLocaleRedirect returns false whenever i18n is unconfigured, or
\* localeDetection is false, or rawPath is not "/".
C7_NoRedirectOutsideGuard ==
  (pc = "handleLocaleRedirect" /\ ~PastGuard) => result = False

\* a deep path of a request that is redirected at "/"
C7_Witness ==
  /\ pc = "handleLocaleRedirect"
  /\ DetectionEnabled
  /\ internalEvent.rawPath # <<"/">>
  /\ result = False
  /\ PrecedenceLocale(internalEvent) # I18n.defaultLocale

\* C8: past the entry guard, when the host and the preferred locale both
\* resolve to domain entries and their domains differ or the preferred locale
\* is not the preferred domain's default, the result is the 307 redirect to
\* {scheme}://{preferredDomain.domain}/{segment}.
C8_DomainRedirect ==
  (pc = "handleLocaleRedirect" /\ PastGuard /\ DomainRedirectDue(internalEvent)) =>
    /\ result # False
    /\ result.type = "core"
    /\ result.statusCode = 307
    /\ result.headers.Location = DomainRedirectLocation(internalEvent)

\* another domain over http, no locale segment, with a cookie naming another locale
C8_Witness ==
  /\ pc = "handleLocaleRedirect"
  /\ PastGuard
  /\ DomainRedirectDue(internalEvent)
  /\ CookieLocales(internalEvent) # {}
  /\ result # False
  /\ result.headers.Location = <<"h","t","t","p",":","/","/","B",":","8","/">>

\* C9: past the entry guard, when no domain redirect is due, the result is the
\* 307 redirect to the current origin with the path /{detectedLocale} if
\* detectedLocale differs, without case, from the host domain's defaultLocale
\* (i18n.defaultLocale when the host matches no domain), and false otherwise.
C9_LocaleRedirect ==
  (pc = "handleLocaleRedirect" /\ PastGuard /\ ~DomainRedirectDue(internalEvent)) =>
    LET detectedLocale == PrecedenceLocale(internalEvent)
        defaultLocale ==
          IF HostEntries(internalEvent.headers.host) # {}
            THEN I18n.domains[First(HostEntries(internalEvent.headers.host))].defaultLocale
            ELSE I18n.defaultLocale
    IN  IF ~SameIgnoringCase(detectedLocale, defaultLocale)
          THEN /\ result # False
               /\ result.type = "core"
               /\ result.statusCode = 307
               /\ HostOf(result.headers.Location) = internalEvent.headers.host
               /\ PathOf(result.headers.Location) = <<"/">> \o detectedLocale
          ELSE result = False

C9_Witness ==
  /\ pc = "handleLocaleRedirect"
  /\ PastGuard
  /\ ~DomainRedirectDue(internalEvent)
  /\ hops = 0
  /\ result # False
  /\ result.headers.Location = <<"h","t","t","p","s",":","/","/","b","/","f","r">>

\* C10: with pairwise distinct domain hostnames, a client following the
\* redirects gets no third one: after two redirects handleLocaleRedirect
\* returns false.
C10_AtMostTwoRedirects ==
  (DistinctHostnames /\ pc = "handleLocaleRedirect" /\ hops >= 2) => result = False

C10_Witness ==
  /\ DistinctHostnames
  /\ Len(I18n.domains) = 2
  /\ pc = "handleLocaleRedirect"
  /\ hops = 2
  /\ result = False

\* with two entries of one hostname the redirects do not end
C10_LoopWithoutDistinctHostnames ==
  (pc = "handleLocaleRedirect" /\ hops >= 2) => result = False

====
